---------------------------- MODULE Spec2Model ----------------------------
(***************************************************************************)
(* A model of gaussian_rbm.py: the GaussianRBM constructor, one call of    *)
(* train (the epoch/batch loop with its annealing schedule and its         *)
(* diagnostics) and gibbs_sampling.                                        *)
(*                                                                         *)
(* Numbers.  The program computes in IEEE doubles; the model computes in   *)
(* fixed point.  Hyperparameters (alpha, m), data, activations and         *)
(* probabilities are integers in thousandths ("milli": 0.01 is 10);        *)
(* the parameters W, h_bias, v_bias and last_velocity are integers in      *)
(* millionths ("micro"); the reconstruction error, a sum of squares of     *)
(* milli values, is in micro.  Quotients are floored to the unit.  The     *)
(* hyperparameter inputs are values for which the doubles computation of   *)
(* the two schedule intervals agrees with the exact one.                   *)
(*                                                                         *)
(* Shapes.  The model has one hidden unit, so W is a vector over the       *)
(* visible units (W[i] is the source's W[i-1, 0]) and the per-row hidden   *)
(* quantities are scalars.  A batch is a sequence of rows, a row a vector  *)
(* over the visible units.                                                 *)
(*                                                                         *)
(* Randomness.  numpy's global random state is the variable rng; every     *)
(* draw advances it.  A uniform draw takes 4 values, a standard normal     *)
(* draw 3.                                                                  *)
(***************************************************************************)
EXTENDS Integers, Sequences, FiniteSets, TLC

VARIABLES
    pc,                 \* where the program is: see the actions
    exc,                \* the exception that ended the call, or "none"
    cargs,              \* the arguments of the constructor call
    num_visible,        \* self.num_visible
    W, h_bias, v_bias, v_sigma,                 \* self.W ... (or None)
    costs, train_free_energies, validation_free_energies,
    last_velocity,      \* self.last_velocity (the scalar 0.0 is the zero vector it broadcasts to)
    targs,              \* the arguments of the train / gibbs_sampling call
    batches,            \* train's local batches
    alpha_update, m_update,                     \* train's locals
    alpha, m,           \* train's copies of the hyperparameters (milli)
    epoch, bi,          \* the epoch of the outer loop, the index of the next batch
    total_error,        \* train's local total_error (micro)
    ret,                \* what gibbs_sampling last returned
    rng,                \* numpy's random state
    hist                \* history: what the current call found and has done
                        \* (errors[e + 1] holds the errors of epoch e's batches)

vars == <<pc, exc, cargs, num_visible, W, h_bias, v_bias, v_sigma, costs,
          train_free_energies, validation_free_energies, last_velocity,
          targs, batches, alpha_update, m_update, alpha, m, epoch, bi,
          total_error, ret, rng, hist>>

-----------------------------------------------------------------------------
(* Bounds of the model *)

\* the largest max_epochs of a modelled train call
MaxEpochs == 27
\* the largest num_visible of a modelled constructor or gibbs_sampling call
MaxVisible == 3
\* the largest max_epochs the momentum schedule alone is run for
MaxLongEpochs == 400

-----------------------------------------------------------------------------
(* Arithmetic helpers *)

Abs(x) == IF x < 0 THEN -x ELSE x

\* int(a / b) for b # 0: Python's int() truncates toward zero
TruncDiv(a, b) ==
    LET q == Abs(a) \div Abs(b)
    IN  IF (a < 0) # (b < 0) THEN -q ELSE q

\* a % b in Python for a >= 0 and b # 0: the result has the sign of b
PyMod(a, b) ==
    IF b > 0 THEN a % b
    ELSE LET r == a % (-b) IN IF r = 0 THEN 0 ELSE r + b

\* (a * b) / 1000 floored, computed without leaving 32 bits
MulMilli(a, b) ==
    a * (b \div 1000) + ((a * (b % 1000)) \div 1000)

RECURSIVE SumSeq(_)
SumSeq(s) == IF s = <<>> THEN 0 ELSE s[1] + SumSeq(Tail(s))

\* x.mean(axis=0) of a column of numbers
Mean(s) == SumSeq(s) \div Len(s)

-----------------------------------------------------------------------------
(* numpy's random state *)

\* one draw advances the state
RngNext(r) == (5 * r + 3) % 16

RECURSIVE RngAdv(_, _)
RngAdv(r, n) == IF n = 0 THEN r ELSE RngAdv(RngNext(r), n - 1)

\* np.random.rand: the n-th next uniform draw, in milli
Uniform(r, n) == (RngAdv(r, n) % 4) * 250

\* np.random.randn / the noise of np.random.normal: the n-th next draw, in milli
Gauss(r, n) == (((RngAdv(r, n) \div 4) % 3) - 1) * 1000

-----------------------------------------------------------------------------
(* __init__ *)

\* Python's None where an array is expected.  Every array of the model has
\* at least one element, so the empty tuple is free to stand for None.
None == <<>>

\* bool(x) as any() evaluates it: "True", "False", or "ValueError" for an
\* ndarray of more than one element (its truth value is ambiguous)
Truth(x) ==
    IF x.kind = "None" THEN "False"
    ELSE IF x.kind = "list" THEN (IF Len(x.val) > 0 THEN "True" ELSE "False")
    ELSE IF Len(x.val) = 0 THEN "False"
    ELSE IF Len(x.val) = 1 THEN (IF x.val[1] # 0 THEN "True" ELSE "False")
    ELSE "ValueError"

\* any([h_bias, v_bias]): the list is built, then scanned; the first truthy
\* element ends the scan
AnyBias(hb, vb) ==
    IF Truth(hb) = "False" THEN Truth(vb) ELSE Truth(hb)

\* what any([h_bias, v_bias]) is None evaluates to: any() returns a bool,
\* and a bool is never None
AnyIsNone(hb, vb) ==
    IF AnyBias(hb, vb) = "ValueError" THEN "ValueError" ELSE "False"

\* the guard of line 22: W is None and any([h_bias, v_bias]) is None
InitGuard(a) ==
    IF a.W.kind = "None" THEN AnyIsNone(a.h_bias, a.v_bias) ELSE "False"

Ones(n) == [i \in 1..n |-> 1]

\* the value an argument leaves in a field
ArrVal(x) == IF x.kind = "None" THEN None ELSE x.val

\* The fields __init__ sets, for arguments that pass the guard.  A fresh W
\* is 0.1 * randn, fresh biases are ones (1.0 is 1000000 micro).
InitFields(a, r) ==
    IF a.W.kind = "None"
    THEN [W |-> [i \in 1..a.num_visible |-> Gauss(r, i) * 100],
          h_bias |-> <<1000000>>,
          v_bias |-> [i \in 1..a.num_visible |-> 1000000],
          v_sigma |-> Ones(a.num_visible),
          rng |-> RngAdv(r, a.num_visible)]
    ELSE [W |-> ArrVal(a.W),
          h_bias |-> ArrVal(a.h_bias),
          v_bias |-> ArrVal(a.v_bias),
          v_sigma |-> ArrVal(a.v_sigma),
          rng |-> r]

-----------------------------------------------------------------------------
(* gibbs_sampling *)

Sq(x) == x * x

\* an array computed once: the function as a tuple of its values
Vec(f) == SubSeq(f, 1, Len(f))

\* hidden_act_func: the logistic sigmoid, of a milli argument, in milli,
\* tabulated at the nearest integer argument
hidden_act_func(x) ==
    LET n == (x + 500) \div 1000
    IN  CASE n <= -4 -> 18
          [] n = -3 -> 47
          [] n = -2 -> 119
          [] n = -1 -> 269
          [] n = 0 -> 500
          [] n = 1 -> 731
          [] n = 2 -> 881
          [] n = 3 -> 953
          [] OTHER -> 982

\* np.dot(v / np.square(self.v_sigma), self.W) + self.h_bias, per row (milli)
HiddenActivations(v, w, hb, sigma) ==
    Vec([r \in 1..Len(v) |->
        (SumSeq([i \in 1..Len(w) |->
                   (v[r][i] \div Sq(sigma[i])) * (w[i] \div 1000)]) \div 1000)
        + (hb[1] \div 1000)])

HiddenProbs(v, w, hb, sigma) ==
    LET act == HiddenActivations(v, w, hb, sigma)
    IN  Vec([r \in 1..Len(v) |-> hidden_act_func(act[r])])

\* (h_probs > np.random.rand(batch_size, num_hidden)).astype(np.int);
\* the draw of row r is the r-th next one
SampleHidden(probs, r0) ==
    Vec([r \in 1..Len(probs) |-> IF probs[r] > Uniform(r0, r) THEN 1 ELSE 0])

\* np.dot(v.T, h_states): one row per visible unit (milli)
Associations(v, h, n) ==
    Vec([i \in 1..n |-> SumSeq([r \in 1..Len(v) |-> v[r][i] * h[r]])])

\* visible_act_func(np.dot(h_states, self.W.T) + self.v_bias): a normal draw
\* with mean the activation and standard deviation v_sigma (milli)
visible_act_func(h, w, vb, sigma, r0) ==
    LET n == Len(w)
    IN  Vec([r \in 1..Len(h) |->
            Vec([i \in 1..n |->
                ((h[r] * w[i] + vb[i]) \div 1000)
                + sigma[i] * Gauss(r0, (r - 1) * n + i)])])

\* The body of the for loop over gibbs_step, from step on; st carries what
\* the loop has assigned so far (v_in_0, v_values, h_probs_new,
\* neg_associations) and the random state.
RECURSIVE GibbsLoop(_, _, _, _, _, _, _, _)
GibbsLoop(step, k, st, h_states_0, w, hb, vb, sigma) ==
    IF step >= k THEN st
    ELSE
      LET B  == Len(st.v_in_0)
          n  == Len(w)
          h_states == IF step = 0 THEN h_states_0
                      ELSE SampleHidden(HiddenProbs(st.v_in_0, w, hb, sigma), st.rng)
          r1 == IF step = 0 THEN st.rng ELSE RngAdv(st.rng, B)
          v_values == visible_act_func(h_states, w, vb, sigma, r1)
          r2 == RngAdv(r1, B * n)
          h_probs_new == HiddenProbs(v_values, w, hb, sigma)
          h_states_new == SampleHidden(h_probs_new, r2)
          r3 == RngAdv(r2, B)
      IN  GibbsLoop(step + 1, k,
                    [v_in_0 |-> v_values,
                     v_values |-> v_values,
                     h_probs_new |-> h_probs_new,
                     neg_associations |-> Associations(v_values, h_states_new, n),
                     rng |-> r3],
                    h_states_0, w, hb, vb, sigma)

\* xrange(pos_associations.shape[0] - 1): the rows the rescaling loop visits
\* (1-based here)
RescaledRows(n) == 1..(n - 1)

\* a row after "row /= cst[i]" with cst[i] = 1 / v_sigma[i]^2
RescaleRow(x, s) == x * Sq(s)

\* the loop of lines 174-176 on one association matrix
Rescale(assoc, sigma) ==
    [i \in 1..Len(assoc) |->
        IF i \in RescaledRows(Len(assoc)) THEN RescaleRow(assoc[i], sigma[i])
        ELSE assoc[i]]

\* gibbs_sampling(v_in_0, k) for k >= 1 on the parameters (w, hb, vb, sigma)
\* from random state r0.  The result holds the returned tuple, the random
\* state left behind and, for the record, the association matrices before
\* (pos_raw, neg_raw) and after the rescaling loop.
gibbs_sampling(v_in_0, k, w, hb, vb, sigma, r0) ==
    LET batch_size == Len(v_in_0)
        n == Len(w)
        h_probs_0 == HiddenProbs(v_in_0, w, hb, sigma)
        h_states_0 == SampleHidden(h_probs_0, r0)
        pos_raw == Associations(v_in_0, h_states_0, n)
        st == GibbsLoop(0, k,
                        [v_in_0 |-> v_in_0, v_values |-> v_in_0,
                         h_probs_new |-> h_probs_0,
                         neg_associations |-> pos_raw,
                         rng |-> RngAdv(r0, batch_size)],
                        h_states_0, w, hb, vb, sigma)
        pos_associations == Rescale(pos_raw, sigma)
        neg_associations == Rescale(st.neg_associations, sigma)
    IN  [associations_delta |->
             [i \in 1..n |-> pos_associations[i] - neg_associations[i]],
         h_bias_delta |->
             [r \in 1..batch_size |-> h_probs_0[r] - st.h_probs_new[r]],
         v_values |-> st.v_values,
         h_probs_new |-> st.h_probs_new,
         batch_size |-> batch_size,
         pos_raw |-> pos_raw,
         neg_raw |-> st.neg_associations,
         pos_associations |-> pos_associations,
         neg_associations |-> neg_associations,
         rng |-> st.rng]

-----------------------------------------------------------------------------
(* average_free_energy *)

\* np.log(1 + np.exp(x)) of a milli argument, in milli, tabulated at the
\* nearest integer argument
Softplus(x) ==
    LET n == (x + 500) \div 1000
    IN  CASE n <= -4 -> 18
          [] n = -3 -> 49
          [] n = -2 -> 127
          [] n = -1 -> 313
          [] n = 0 -> 693
          [] n = 1 -> 1313
          [] n = 2 -> 2127
          [] n = 3 -> 3049
          [] OTHER -> x + 18

\* average_free_energy(data) on the parameters (w, hb, vb), in milli
average_free_energy(data, w, hb, vb) ==
    LET wx_b == [r \in 1..Len(data) |->
                   (SumSeq([i \in 1..Len(w) |-> data[r][i] * (w[i] \div 1000)])
                       \div 1000) + (hb[1] \div 1000)]
        vbias_term == [r \in 1..Len(data) |->
                   SumSeq([i \in 1..Len(w) |-> data[r][i] * (vb[i] \div 1000)])
                       \div 1000]
        hidden_term == [r \in 1..Len(data) |-> Softplus(wx_b[r])]
    IN  Mean([r \in 1..Len(data) |-> (0 - hidden_term[r]) - vbias_term[r]])

-----------------------------------------------------------------------------
(* train: the collaborator and the pure parts *)

Min(a, b) == IF a < b THEN a ELSE b

\* util.generate_batches(data, batch_size): the rows in order, batch_size
\* at a time, the last batch holding what is left
RECURSIVE generate_batches(_, _)
generate_batches(data, batch_size) ==
    IF data = <<>> THEN <<>>
    ELSE LET n == Min(batch_size, Len(data))
         IN  <<SubSeq(data, 1, n)>>
             \o generate_batches(SubSeq(data, n + 1, Len(data)), batch_size)

\* AlphaDivisor as the distance to the floor, (alpha - 0.01) / 0.01
AlphaDivisor_ToFloor(a) == a - 10

\* the divisor of max_epochs in line 76, alpha / 0.01, times 100 (alpha milli)
AlphaDivisor(a) == a

\* the divisor of max_epochs in line 78, (0.9 - m) / 0.01, times 100 (m milli)
MDivisor(mm) == 900 - mm

\* Interval without the + 1
Interval_NoPlusOne(max_epochs, d) == TruncDiv(10 * max_epochs, d)

\* int(max_epochs / (d / 100)) + 1 for d # 0
Interval(max_epochs, d) == TruncDiv(10 * max_epochs, d) + 1

\* MStep without the epoch > 0 test
MStep_AtEpochZero(e, mu, mm) ==
    IF PyMod(e, mu) = 0 THEN mm + 10 ELSE mm

\* line 115-116: the momentum after the epoch's schedule step (mu # 0)
MStep(e, mu, mm) ==
    IF PyMod(e, mu) = 0 /\ e > 0 THEN mm + 10 ELSE mm

\* line 117-118: the learning rate after the epoch's schedule step (au # 0)
AlphaStep(e, au, a) ==
    IF PyMod(e, au) = 0 /\ e > 0 /\ a > 10 THEN a - 10 ELSE a

\* SamplesFreeEnergy without the epoch > 0 test
SamplesFreeEnergy_AtEpochZero(e) == e % 25 = 0

\* line 109: whether the epoch samples the free energies
SamplesFreeEnergy(e) == e % 25 = 0 /\ e > 0

\* associations_delta / float(batch_size), batch_size being train's argument
WeightGradient(associations_delta, batch, batch_size) ==
    [i \in 1..Len(associations_delta) |-> associations_delta[i] \div batch_size]

\* the momentum term m * self.last_velocity (micro)
MomentumTerm(mm, lv) == [i \in 1..Len(lv) |-> MulMilli(mm, lv[i])]

\* line 90-92: deltaW (micro)
DeltaW(a, grad, mm, lv) ==
    [i \in 1..Len(grad) |-> a * grad[i] + MomentumTerm(mm, lv)[i]]

\* line 96: alpha * (h_bias_delta).mean(axis=0) (micro)
HBiasStep(a, h_bias_delta) == a * Mean(h_bias_delta)

\* line 97-99: alpha * ((cst*batch) - (cst*v_values_new)).mean(axis=0) (micro)
VBiasStep(a, batch, v, sigma) ==
    [i \in 1..Len(sigma) |->
        a * Mean([r \in 1..Len(batch) |->
                     (batch[r][i] \div Sq(sigma[i])) - (v[r][i] \div Sq(sigma[i]))])]

\* np.sum((batch - v_values_new) ** 2) (micro)
SquaredError(batch, v) ==
    SumSeq([r \in 1..Len(batch) |->
              SumSeq([i \in 1..Len(batch[r]) |-> Sq(batch[r][i] - v[r][i])])])

\* line 101: error, batch_size being train's argument
BatchError(batch, v, batch_size) == SquaredError(batch, v) \div batch_size

\* CostsAppend without the reset of total_error
CostsAppend_NoReset(cs, te) == [costs |-> Append(cs, te), total_error |-> te]

\* line 119-120: what the epoch's end leaves in self.costs and total_error
CostsAppend(cs, te) == [costs |-> Append(cs, te), total_error |-> 0]

-----------------------------------------------------------------------------
(* Inputs *)

ArgNone == [kind |-> "None", val |-> <<>>]
Arr(v) == [kind |-> "ndarray", val |-> v]
Lst(v) == [kind |-> "list", val |-> v]

Zeros(n) == [i \in 1..n |-> 0]

\* the argument lists the constructor is called with, for n visible units
ConstructorArgsFor(n) ==
    { [num_visible |-> n, W |-> w, h_bias |-> hb, v_bias |-> vb, v_sigma |-> sg] :
        w \in {ArgNone, Arr(Zeros(n))},
        hb \in {ArgNone, Lst(<<0>>), Arr(<<0>>), Arr(<<1000000>>)},
        vb \in {ArgNone, Lst(Zeros(n)), Arr(Zeros(n))},
        sg \in {ArgNone, Arr(Ones(n))} }

ConstructorArgs == UNION { ConstructorArgsFor(n) : n \in 1..MaxVisible }

\* a model restored from arrays: every array supplied
Restored(w, hb, vb, sg) ==
    [num_visible |-> Len(w), W |-> Arr(w), h_bias |-> Arr(hb),
     v_bias |-> Arr(vb), v_sigma |-> Arr(sg)]

\* a fresh model: GaussianRBM(num_visible, num_hidden)
Fresh(n) ==
    [num_visible |-> n, W |-> ArgNone, h_bias |-> ArgNone,
     v_bias |-> ArgNone, v_sigma |-> ArgNone]

\* the models train is called on
TrainObjects ==
    { Fresh(2),
      Restored(<<100000, -100000>>, <<0>>, <<0, 500000>>, <<2, 1>>) }

\* the models gibbs_sampling is called on
GibbsObjects ==
    UNION { { Restored([i \in 1..n |-> 100000 * i], <<0>>, Zeros(n), sg) :
                sg \in [1..n -> {1, 2}] } : n \in 1..MaxVisible }

\* the batches gibbs_sampling is called with, for n visible units
GibbsBatches(n) ==
    { <<[i \in 1..n |-> 1000 * i]>>,
      <<[i \in 1..n |-> 1000], [i \in 1..n |-> 2000 * i]>> }

\* the datasets of train (two visible units)
Data2 == << <<1000, 0>>, <<0, 1000>> >>
Data3 == << <<1000, 0>>, <<0, 1000>>, <<2000, 1000>> >>

\* dataset, validation set, batch size and chain length of a train call
Scenarios ==
    { [data |-> Data2, validation |-> None, batch_size |-> 2, gibbs_k |-> 1],
      [data |-> Data3, validation |-> Data2, batch_size |-> 2, gibbs_k |-> 2] }

\* learning rates and momenta of a train call (milli)
AlphaInputs == {0, 10, 15, 100}
MInputs == {0, 800, 900, 950}

TrainArgs ==
    { [data |-> sc.data, validation |-> sc.validation, max_epochs |-> e,
       batch_size |-> sc.batch_size, alpha |-> a, m |-> mm, gibbs_k |-> sc.gibbs_k] :
        sc \in Scenarios, e \in 0..MaxEpochs, a \in AlphaInputs, mm \in MInputs }

\* the snapshot files load_configuration reads
Snapshots ==
    { [W |-> <<0, 0>>, h_bias |-> <<0>>, v_bias |-> <<0, 0>>, num_visible |-> 2,
       costs |-> <<4000000>>, train_free_energies |-> <<-693>>,
       validation_free_energies |-> <<-700>>] }

NoArgs == [data |-> <<>>, validation |-> None, max_epochs |-> 0,
           batch_size |-> 1, alpha |-> 0, m |-> 0, gibbs_k |-> 1]

NoRet == [associations_delta |-> <<>>, h_bias_delta |-> <<>>, v_values |-> <<>>,
          h_probs_new |-> <<>>, batch_size |-> 0, pos_raw |-> <<>>,
          neg_raw |-> <<>>, pos_associations |-> <<>>,
          neg_associations |-> <<>>, rng |-> 0]

NoUpd == [batch |-> <<>>, epoch |-> 0, alpha |-> 0, m |-> 0,
          last_velocity |-> <<>>, weight_gradient |-> <<>>,
          deltaW |-> <<>>, error |-> 0]

NoHist == [loaded |-> FALSE, pre |-> <<>>, batches_done |-> 0,
           errors |-> <<>>, upd |-> NoUpd]

-----------------------------------------------------------------------------
(* Initial states *)

\* train's and gibbs_sampling's locals before any call
NoCall ==
    /\ exc = "none"
    /\ costs = <<>>
    /\ train_free_energies = <<>>
    /\ validation_free_energies = <<>>
    /\ targs = NoArgs
    /\ batches = <<>>
    /\ alpha_update = 0
    /\ m_update = 0
    /\ alpha = 0
    /\ m = 0
    /\ epoch = 0
    /\ bi = 0
    /\ total_error = 0
    /\ ret = NoRet
    /\ hist = NoHist

\* the object __init__ leaves for arguments a, from random state r
Constructed(a, r) ==
    LET f == InitFields(a, r)
    IN  /\ cargs = a
        /\ num_visible = a.num_visible
        /\ W = f.W
        /\ h_bias = f.h_bias
        /\ v_bias = f.v_bias
        /\ v_sigma = f.v_sigma
        /\ last_velocity = Zeros(a.num_visible)
        /\ rng = f.rng
        /\ NoCall

\* before __init__ runs
InitNew ==
    /\ pc = "new"
    /\ cargs \in ConstructorArgs
    /\ rng \in {0, 5}
    /\ num_visible = 0
    /\ W = None /\ h_bias = None /\ v_bias = None /\ v_sigma = None
    /\ last_velocity = None
    /\ NoCall

\* a constructed model, before train is called
Init ==
    /\ pc = "ready"
    /\ \E a \in TrainObjects : Constructed(a, 0)

\* a constructed model, before gibbs_sampling is called
InitGibbs ==
    /\ pc = "ready"
    /\ \E a \in GibbsObjects, r \in {0, 5} : Constructed(a, r)

-----------------------------------------------------------------------------
(* Actions *)

object == <<num_visible, W, h_bias, v_bias, v_sigma, last_velocity>>
histories == <<costs, train_free_energies, validation_free_energies>>
locals == <<targs, batches, alpha_update, m_update, alpha, m, epoch, bi,
            total_error>>

\* GaussianRBM(num_visible, num_hidden, W, h_bias, v_bias, v_sigma)
Construct ==
    /\ pc = "new"
    /\ LET g == InitGuard(cargs)
           f == InitFields(cargs, rng)
       IN  IF g = "ValueError" \/ g = "True"
           THEN /\ pc' = "raised"
                /\ exc' = (IF g = "True" THEN "Exception" ELSE "ValueError")
                /\ UNCHANGED <<object, rng>>
           ELSE /\ pc' = "ready"
                /\ num_visible' = cargs.num_visible
                /\ W' = f.W
                /\ h_bias' = f.h_bias
                /\ v_bias' = f.v_bias
                /\ v_sigma' = f.v_sigma
                /\ last_velocity' = Zeros(cargs.num_visible)
                /\ rng' = f.rng
                /\ exc' = "none"
    /\ UNCHANGED <<cargs, histories, locals, ret, hist>>

\* gibbs_sampling(v_in_0, k) called on the model
GibbsCall ==
    /\ pc = "ready"
    /\ \E v_in_0 \in GibbsBatches(num_visible), k \in 1..2 :
          /\ targs' = [NoArgs EXCEPT !.data = v_in_0, !.gibbs_k = k]
          /\ ret' = gibbs_sampling(v_in_0, k, W, h_bias, v_bias, v_sigma, rng)
    /\ rng' = ret'.rng
    /\ pc' = "gibbs_returned"
    /\ UNCHANGED <<exc, cargs, object, histories, batches, alpha_update,
                   m_update, alpha, m, epoch, bi, total_error, hist>>

\* load_configuration(infile): the fields the file sets; v_sigma and
\* last_velocity are not among them
LoadConfiguration ==
    /\ pc = "ready"
    /\ ~hist.loaded
    /\ \E snap \in Snapshots :
          /\ W' = snap.W
          /\ h_bias' = snap.h_bias
          /\ v_bias' = snap.v_bias
          /\ num_visible' = snap.num_visible
          /\ costs' = snap.costs
          /\ train_free_energies' = snap.train_free_energies
          /\ validation_free_energies' = snap.validation_free_energies
    /\ hist' = [hist EXCEPT !.loaded = TRUE]
    /\ UNCHANGED <<pc, exc, cargs, v_sigma, last_velocity, locals, ret, rng>>

\* the object and its histories as a train call finds them
Snapshot ==
    [W |-> W, h_bias |-> h_bias, v_bias |-> v_bias,
     last_velocity |-> last_velocity, costs |-> costs,
     train_free_energies |-> train_free_energies,
     validation_free_energies |-> validation_free_energies]

\* train(data, validation, max_epochs, batch_size, alpha, m, gibbs_k) up to
\* the head of the epoch loop (lines 70-80)
TrainBegin ==
    /\ pc = "ready"
    /\ \E a \in TrainArgs :
          /\ targs' = a
          /\ total_error' = 0
          /\ batches' = generate_batches(a.data, a.batch_size)
          /\ alpha' = a.alpha
          /\ m' = a.m
          /\ epoch' = 0
          /\ bi' = 1
          /\ IF AlphaDivisor(a.alpha) = 0
             THEN /\ pc' = "raised"
                  /\ exc' = "ZeroDivisionError"
                  /\ UNCHANGED <<alpha_update, m_update>>
             ELSE /\ alpha_update' = Interval(a.max_epochs, AlphaDivisor(a.alpha))
                  /\ IF MDivisor(a.m) = 0
                     THEN /\ pc' = "raised"
                          /\ exc' = "ZeroDivisionError"
                          /\ UNCHANGED m_update
                     ELSE /\ m_update' = Interval(a.max_epochs, MDivisor(a.m))
                          /\ pc' = (IF a.max_epochs > 0 THEN "batch" ELSE "returned")
                          /\ UNCHANGED exc
    /\ hist' = [hist EXCEPT !.pre = Snapshot]
    /\ UNCHANGED <<cargs, object, histories, ret, rng>>

\* one iteration of the loop over batches (lines 83-102)
Batch ==
    /\ pc = "batch"
    /\ ret' = gibbs_sampling(batches[bi], targs.gibbs_k, W, h_bias, v_bias,
                             v_sigma, rng)
    /\ rng' = ret'.rng
    /\ last_velocity' =
          DeltaW(alpha,
                 WeightGradient(ret'.associations_delta, batches[bi], targs.batch_size),
                 m, last_velocity)
    /\ W' = [i \in 1..Len(W) |-> W[i] + last_velocity'[i]]
    /\ h_bias' = <<h_bias[1] + HBiasStep(alpha, ret'.h_bias_delta)>>
    /\ v_bias' = [i \in 1..Len(v_bias) |->
                    v_bias[i] + VBiasStep(alpha, batches[bi], ret'.v_values, v_sigma)[i]]
    /\ total_error' =
          total_error + BatchError(batches[bi], ret'.v_values, targs.batch_size)
    /\ hist' = [hist EXCEPT
                  !.batches_done = @ + 1,
                  !.errors =
                      LET error == BatchError(batches[bi], ret'.v_values,
                                              targs.batch_size)
                      IN  IF Len(@) = epoch THEN Append(@, <<error>>)
                          ELSE [@ EXCEPT ![epoch + 1] = Append(@, error)],
                  !.upd = [batch |-> batches[bi], epoch |-> epoch,
                           alpha |-> alpha, m |-> m,
                           last_velocity |-> last_velocity,
                           weight_gradient |->
                               WeightGradient(ret'.associations_delta, batches[bi],
                                              targs.batch_size),
                           deltaW |-> last_velocity',
                           error |-> BatchError(batches[bi], ret'.v_values,
                                                targs.batch_size)]]
    /\ bi' = bi + 1
    /\ pc' = (IF bi = Len(batches) THEN "epoch_end" ELSE "batch")
    /\ UNCHANGED <<exc, cargs, num_visible, v_sigma, histories, targs, batches,
                   alpha_update, m_update, alpha, m, epoch>>

\* the end of an epoch (lines 108-120) and the step to the next one
EpochEnd ==
    /\ pc = "epoch_end"
    /\ IF SamplesFreeEnergy(epoch)
       THEN /\ train_free_energies' =
                  Append(train_free_energies,
                         average_free_energy(batches[1], W, h_bias, v_bias))
            /\ validation_free_energies' =
                  (IF targs.validation # None
                   THEN Append(validation_free_energies,
                               average_free_energy(targs.validation, W, h_bias, v_bias))
                   ELSE validation_free_energies)
       ELSE UNCHANGED <<train_free_energies, validation_free_energies>>
    /\ IF m_update = 0
       THEN \* epoch % m_update raises
            /\ pc' = "raised"
            /\ exc' = "ZeroDivisionError"
            /\ UNCHANGED <<m, alpha, costs, total_error, epoch, bi>>
       ELSE /\ m' = MStep(epoch, m_update, m)
            /\ IF alpha_update = 0
               THEN \* epoch % alpha_update raises
                    /\ pc' = "raised"
                    /\ exc' = "ZeroDivisionError"
                    /\ UNCHANGED <<alpha, costs, total_error, epoch, bi>>
               ELSE /\ alpha' = AlphaStep(epoch, alpha_update, alpha)
                    /\ costs' = CostsAppend(costs, total_error).costs
                    /\ total_error' = CostsAppend(costs, total_error).total_error
                    /\ epoch' = epoch + 1
                    /\ bi' = 1
                    /\ pc' = (IF epoch + 1 < targs.max_epochs THEN "batch" ELSE "returned")
                    /\ UNCHANGED exc
    /\ UNCHANGED <<cargs, object, targs, batches, alpha_update, m_update,
                   ret, rng, hist>>

-----------------------------------------------------------------------------
(* Specifications *)

Next == LoadConfiguration \/ TrainBegin \/ Batch \/ EpochEnd

\* one train call on a constructed (and possibly reloaded) model
Spec == Init /\ [][Next]_vars

NextInit == Construct

\* one constructor call
SpecInit == InitNew /\ [][NextInit]_vars

NextGibbs == GibbsCall

\* one gibbs_sampling call on a constructed model
SpecGibbs == InitGibbs /\ [][NextGibbs]_vars

-----------------------------------------------------------------------------
(* Properties *)

\* train has taken its arguments and not raised
InTrain == pc \in {"batch", "epoch_end", "returned"}

\* C1: during a train call with alpha0 >= 0.01 the learning rate the loop
\* holds never falls below 0.01.
C1_AlphaFloor ==
    (InTrain /\ targs.alpha >= 10) => alpha >= 10

\* the hyperparameters for which train's interval computation divides by
\* zero (a divisor of max_epochs is 0) or yields an interval of 0, which the
\* epoch's end uses as a modulus
Degenerate(a) ==
    \/ AlphaDivisor(a.alpha) = 0
    \/ MDivisor(a.m) = 0
    \/ Interval(a.max_epochs, AlphaDivisor(a.alpha)) = 0
    \/ Interval(a.max_epochs, MDivisor(a.m)) = 0

\* C2: a train call with hyperparameters whose interval computation, or its
\* use, divides by zero ends in an error before the first batch is
\* processed, with W, h_bias, v_bias, last_velocity and costs as the call
\* found them.
C2_DegenerateRaisesBeforeFirstBatch ==
    (pc \in {"batch", "epoch_end", "returned", "raised"} /\ Degenerate(targs))
        => /\ pc = "raised"
           /\ hist.batches_done = 0
           /\ Snapshot = hist.pre

\* W omitted while a bias is supplied, or W supplied while a bias is omitted
Inconsistent(a) ==
    \/ a.W.kind = "None" /\ (a.h_bias.kind # "None" \/ a.v_bias.kind # "None")
    \/ a.W.kind # "None" /\ (a.h_bias.kind = "None" \/ a.v_bias.kind = "None")

\* C3: a constructor call with inconsistent arguments raises; it produces
\* no object.
C3_InconsistentArgsRaise ==
    (pc # "new" /\ Inconsistent(cargs)) => pc = "raised"

\* alpha * weight_gradient of the latest batch (micro)
PlainStep == [i \in 1..Len(hist.upd.weight_gradient) |->
                 hist.upd.alpha * hist.upd.weight_gradient[i]]

\* C4 as stated: in a train call started with m = 0 the weight update of
\* every batch of every epoch is alpha * weight_gradient.
C4_PlainAscentEveryBatch ==
    (targs.m = 0 /\ hist.batches_done > 0) => hist.upd.deltaW = PlainStep

\* C4 as amended: in a train call started with m = 0 the weight update is
\* alpha * weight_gradient, whatever last_velocity holds, for every batch of
\* the epochs 0..m_update, the epochs before the schedule first raises m.
C4_PlainAscentUntilFirstRaise ==
    (targs.m = 0 /\ hist.batches_done > 0 /\ hist.upd.epoch <= m_update)
        => hist.upd.deltaW = PlainStep

\* C4's case: a batch of epoch 1 of a call started with m = 0, updated with
\* a non-zero last_velocity
C4_Witness ==
    /\ targs.m = 0
    /\ hist.batches_done > 0
    /\ hist.upd.epoch = 1
    /\ \E i \in 1..Len(hist.upd.last_velocity) : hist.upd.last_velocity[i] # 0
    /\ \E i \in 1..Len(hist.upd.deltaW) : hist.upd.deltaW[i] # 0

\* the learning-rate step the end of an epoch takes when the decay interval
\* is I
DecayStep(I) ==
    alpha' = (IF epoch > 0 /\ epoch % I = 0 /\ alpha > 10 THEN alpha - 10 ELSE alpha)

EpochSum(errs, e) == SumSeq(errs[e + 1])

\* C6: costs is append-only: after the epochs 0..epoch-1 of a train call it
\* holds the entries the call found followed by one entry per completed
\* epoch, the sum of the errors of that epoch's batches alone; a call that
\* returns has appended max_epochs entries.
C6_CostsPerEpoch ==
    InTrain =>
       /\ Len(costs) = Len(hist.pre.costs) + epoch
       /\ SubSeq(costs, 1, Len(hist.pre.costs)) = hist.pre.costs
       /\ \A e \in 0..(epoch - 1) :
             costs[Len(hist.pre.costs) + e + 1] = EpochSum(hist.errors, e)
       /\ (pc = "returned" => epoch = targs.max_epochs)

\* C6's case: a call that found an entry in costs has returned after more
\* than one epoch of two batches, whose errors are not all zero
C6_Witness ==
    /\ pc = "returned"
    /\ targs.max_epochs > 1
    /\ Len(batches) = 2
    /\ hist.pre.costs # <<>>
    /\ costs[Len(costs)] > 0
    /\ costs[Len(costs)] # costs[Len(costs) - 1]

\* the epochs in 1..n-1 that are multiples of 25
SampledEpochs(n) == {e \in 1..(n - 1) : e % 25 = 0}

\* C7 as stated: a train call of E epochs appends exactly floor((E-1)/25)
\* entries to train_free_energies, and as many to validation_free_energies
\* when a validation set is supplied, none otherwise.
C7_SamplesAsStated ==
    pc = "returned" =>
       /\ Len(train_free_energies) - Len(hist.pre.train_free_energies)
             = (targs.max_epochs - 1) \div 25
       /\ Len(validation_free_energies) - Len(hist.pre.validation_free_energies)
             = (IF targs.validation # None THEN (targs.max_epochs - 1) \div 25 ELSE 0)

\* C7 as amended: the free energies are sampled once at the end of each
\* epoch e > 0 with e mod 25 = 0 and nowhere else, so a train call of
\* E >= 1 epochs appends floor((E-1)/25) entries to train_free_energies and
\* a call of 0 epochs none; validation_free_energies gets an entry at the
\* same epochs when a validation set is supplied and is unchanged otherwise.
C7_Samples ==
    InTrain =>
       LET n == Cardinality(SampledEpochs(epoch))
           t0 == Len(hist.pre.train_free_energies)
           v0 == Len(hist.pre.validation_free_energies)
       IN  /\ Len(train_free_energies) = t0 + n
           /\ SubSeq(train_free_energies, 1, t0) = hist.pre.train_free_energies
           /\ IF targs.validation # None
              THEN /\ Len(validation_free_energies) = v0 + n
                   /\ SubSeq(validation_free_energies, 1, v0)
                         = hist.pre.validation_free_energies
              ELSE validation_free_energies = hist.pre.validation_free_energies
           /\ (pc = "returned" =>
                 /\ epoch = targs.max_epochs
                 /\ n = (IF targs.max_epochs >= 1
                         THEN (targs.max_epochs - 1) \div 25 ELSE 0))

\* C7's case: a call with a validation set has returned after more than 25
\* epochs of two batches each, with one sample in each history
C7_Witness ==
    /\ pc = "returned"
    /\ targs.max_epochs > 25
    /\ targs.validation # None
    /\ Len(batches) = 2
    /\ Len(train_free_energies) = Len(hist.pre.train_free_energies) + 1
    /\ Len(validation_free_energies) = Len(hist.pre.validation_free_energies) + 1

\* C8: gibbs_sampling returns both association matrices with every row i
\* rescaled once by 1 / v_sigma[i]^2, the last row and the only row of a
\* one-unit model included.
C8_EveryRowRescaled ==
    pc = "gibbs_returned" =>
       \A i \in 1..num_visible :
          /\ ret.pos_associations[i] * Sq(v_sigma[i]) = ret.pos_raw[i]
          /\ ret.neg_associations[i] * Sq(v_sigma[i]) = ret.neg_raw[i]

\* the momentum after the schedule steps of the epochs lo..hi-1, in order,
\* from momentum mm.  The range is halved, and the first half's result is
\* bound as a value before the second half runs, to keep the evaluation
\* shallow.
RECURSIVE RunRange(_, _, _, _)
RunRange(lo, hi, mu, mm) ==
    IF hi <= lo THEN mm
    ELSE IF hi = lo + 1 THEN MStep(lo, mu, mm)
    ELSE LET mid == (lo + hi) \div 2
         IN  CHOOSE r \in { RunRange(mid, hi, mu, left) :
                                left \in {RunRange(lo, mid, mu, mm)} } : TRUE

\* the momentum a train call of E epochs started with m0 ends with; a call
\* whose interval is 0 raises at the end of epoch 0
RunM(E, m0) ==
    LET mu == Interval(E, MDivisor(m0))
    IN  IF mu = 0 THEN m0 ELSE RunRange(0, E, mu, m0)

\* the momenta below 0.9 a call is started with
MBelow == {x \in MInputs : 0 <= x /\ x < 900}

\* C9 as stated: started with 0 <= m0 < 0.9, there are values of max_epochs
\* for which m exceeds 0.9 at some epoch of the call.
C9_SomeRunExceeds ==
    pc = "ready" =>
       \E m0 \in MBelow : \E E \in 0..MaxLongEpochs :
           RunM(E, m0) > 900

\* C9 as amended: in a train call started with 0 <= m0 < 0.9 the momentum
\* stays below 0.9 at every epoch, for every max_epochs: the schedule raises
\* m fewer than (0.9 - m0) / 0.01 times.
C9_MomentumBelowTarget ==
    /\ (InTrain /\ targs.m \in MBelow) => m < 900
    /\ pc = "ready" =>
          \A m0 \in MBelow : \A E \in 0..MaxLongEpochs :
              RunM(E, m0) < 900

\* C9's case: a call started below 0.9 has returned with m raised as often
\* as a call of its length raises it
C9_Witness ==
    /\ pc = "returned"
    /\ targs.m = 800
    /\ m >= targs.m + 80

\* C10: the weight gradient of a batch is association_delta / B and its
\* reconstruction error the summed squared difference / B, for B the row
\* count of the batch, the batch size gibbs_sampling used.
C10_NormalisedByRowCount ==
    hist.batches_done > 0 =>
       /\ hist.upd.weight_gradient =
             [i \in 1..Len(ret.associations_delta) |->
                 ret.associations_delta[i] \div ret.batch_size]
       /\ hist.upd.error =
             SquaredError(hist.upd.batch, ret.v_values) \div ret.batch_size
       /\ ret.batch_size = Len(hist.upd.batch)

=============================================================================
